---- MODULE Spec2Model ----
(***************************************************************************)
(* Split-learning gradient exchange of plato: algorithms/split_learning.py *)
(* (Algorithm.load_gradients, complete_train, apply_gradients,             *)
(* extract_features).                                                      *)
(*                                                                         *)
(* Python objects are modelled with a small store: a tensor is an address  *)
(* of `heap`, a list object is a slot of `lists` holding a sequence of     *)
(* tensor addresses, and a Python variable holds a reference (a slot name  *)
(* or an address).  Python positions are 0-based and kept 0-based here;    *)
(* getitem translates to TLA+'s 1-based sequences.                         *)
(***************************************************************************)
EXTENDS Integers, Sequences, FiniteSets, TLC

\* ---------------------------------------------------------------- bounds
MaxLen == 3
MaxBatches == 4
MaxSessions == 2
MaxCallerLen == 2
MaxSamples == 3
MaxBatchSize == 3
MaxPartitions == 2
MaxTotal == 4
MaxMin == 3
Unit == 4

\* Contents a gradient tensor can have.  No operation of Algorithm inspects
\* a tensor's content, so two distinguishable contents are enough.
Grads == {"g0", "g1"}

\* The named layers of the model (the keys of model.layerdict) and the layer
\* the configuration names as the cut layer.
Layers == {"conv", "fc"}
SplitLayer == "conv"
NoLayer == "none"

\* The frameworks Config().trainer can select.
Frameworks == {"pytorch", "mindspore", "tensorflow"}

\* Labels a sample of a dataset can carry.
Labels == {"cat", "dog"}

Free == "free"
None == 0
GradInput == -1
GradOutput == -2

Addr == 1..(3 * MaxLen + 1)

VARIABLES
    heap,                 \* Addr -> content of the tensor, or Free
    lists,                \* list objects: caller (the server's G), own
    gradients_list,       \* self.gradients_list: a reference to a list object
    cut_layer_gradients,  \* self.cut_layer_gradients: None or a tensor
    loaded,               \* load_gradients was called with a non-empty sequence
    hooks,                \* per layer: registrations of apply_gradients on it
    training,             \* self.model's mode: TRUE train(), FALSE eval()
    pc,                   \* position inside complete_train
    cut_layer,            \* the cut_layer argument of this complete_train call
    opt_steps,            \* optimizer steps this complete_train call has made
    num_batches,          \* batches the data loader of this run yields
    batch_id,             \* enumerate(data_loader) counter
    gradients_index,      \* the local gradients_index of complete_train
    used,                 \* per batch of this run: gradient in force at backward
    propagated,           \* what the last backward pass sent past the cut layer
    hook_calls,           \* hook invocations of the last backward pass at that layer
    error,                \* exception the last call raised, or "none"
    dataset,              \* extract_features: the (input, label) samples
    order,                \* extract_features: the indices sampler.get() yields
    batch_size,           \* extract_features: the data loader's batch size
    epc,                  \* position inside extract_features
    pos,                  \* samples of `order` the data loader has delivered
    feature_dataset,      \* the local feature_dataset of extract_features
    entry_training,       \* the model's mode when extract_features was called
    forwards,             \* modes of the forward_to passes of this extract_features
    all_inclusive,        \* Sampler.all_inclusive = range(n): its n
    framework,            \* the framework Config().trainer selects
    size,                 \* the last answer of trainset_size(), -1 before any
    skew_pc,              \* position inside create_dirichlet_skew
    total_size,           \* create_dirichlet_skew: its argument
    number_partitions,    \* create_dirichlet_skew: its argument
    min_partition_size,   \* create_dirichlet_skew: <<>> for None, <<k>> for k
    proportions,          \* its local proportions: num[i] / den, unbound if <<>>
    min_size,             \* its local min_size, the fraction num / den
    last_draw             \* what np.random.dirichlet last returned, <<>> before

algVars == <<heap, lists, gradients_list, cut_layer_gradients>>
runVars == <<pc, cut_layer, num_batches, batch_id, gradients_index, used,
             opt_steps, error>>
hookVars == <<propagated, hook_calls>>
callVars == <<order, batch_size, epc, pos, feature_dataset, entry_training, forwards>>
samplerVars == <<all_inclusive, framework, size>>
skewVars == <<skew_pc, total_size, number_partitions, min_partition_size,
              proportions, min_size, last_draw>>
exVars == <<dataset, callVars, samplerVars, skewVars>>
vars == <<algVars, loaded, hooks, training, runVars, hookVars, exVars>>

Min(a, b) == IF a < b THEN a ELSE b

\* ------------------------------------------------------------ the store
RECURSIVE Dedup(_, _)
Dedup(s, seen) ==
    IF s = <<>> THEN <<>>
    ELSE IF Head(s) \in seen THEN Dedup(Tail(s), seen)
         ELSE <<Head(s)>> \o Dedup(Tail(s), seen \cup {Head(s)})

\* The tensors some reference still reaches, in a canonical order.
Roots(l, c) ==
    Dedup(l.caller \o l.own \o (IF c \in Addr THEN <<c>> ELSE <<>>), {})

Rename(live, a) ==
    IF a \in Addr THEN CHOOSE i \in 1..Len(live) : live[i] = a ELSE a

\* Garbage collection: tensors nothing refers to are freed, and the live ones
\* renumbered in the canonical order (object identity is all a program sees).
Collect(h, l, c) ==
    LET live == Roots(l, c)
    IN  [heap  |-> [a \in Addr |-> IF a <= Len(live) THEN h[live[a]] ELSE Free],
         lists |-> [caller |-> [i \in 1..Len(l.caller) |-> Rename(live, l.caller[i])],
                    own    |-> [i \in 1..Len(l.own) |-> Rename(live, l.own[i])]],
         cut   |-> Rename(live, c)]

NewAddr(h) == CHOOSE a \in Addr : h[a] = Free /\ \A b \in Addr : b < a => h[b] # Free

\* The contents of the tensors of a sequence of addresses.
Contents(h, s) == [i \in 1..Len(s) |-> h[s[i]]]


\* ------------------------------------------------------- load_gradients
\* New tensors with the contents vals, in the first free addresses.
RECURSIVE NewTensors(_, _)
NewTensors(vals, h) ==
    IF vals = <<>> THEN [list |-> <<>>, heap |-> h]
    ELSE LET a == NewAddr(h)
             r == NewTensors(Tail(vals), [h EXCEPT ![a] = Head(vals)])
         IN  [list |-> <<a>> \o r.list, heap |-> r.heap]

\* A plain assignment in place of the copy: the caller's own list object.
deepcopy_alias(h, l, gradients) ==
    [obj |-> gradients, list |-> l[gradients], heap |-> h]

\* copy.deepcopy of the list object `gradients` of store (h, l): a new list
\* object holding a new tensor per element, with the element's content (the
\* elements of a caller's list are distinct tensors).
deepcopy(h, l, gradients) ==
    LET r == NewTensors(Contents(h, l[gradients]), h)
    IN  [obj |-> "new", list |-> r.list, heap |-> r.heap]

\* self.gradients_list.extend(...) in place of the assignment.
load_gradients_extend(h, l, gradients) ==
    LET r == NewTensors(Contents(h, l[gradients]), h)
    IN  [heap |-> r.heap,
         lists |-> [l EXCEPT !.own = @ \o r.list],
         gradients_list |-> "own"]

\* self.gradients_list = deepcopy(gradients).  The assignment stores whatever
\* object the right-hand side evaluates to; a new list object takes the slot
\* `own`, whose former list nothing refers to any more.
load_gradients(h, l, gradients) ==
    LET r == deepcopy(h, l, gradients)
    IN  [heap |-> r.heap,
         lists |-> IF r.obj = "new" THEN [l EXCEPT !.own = r.list] ELSE l,
         gradients_list |-> IF r.obj = "new" THEN "own" ELSE r.obj]

\* The list object self.gradients_list refers to.
GradientsList == lists[gradients_list]

\* The load also putting the first element of the new list in force.
cut_after_load_first(clg, new) == IF new # <<>> THEN new[1] ELSE None

\* load_gradients has no assignment to self.cut_layer_gradients: the
\* attribute after the call, given the new list.
cut_after_load(clg, new) == clg

\* load_gradients(G) for the list G the caller holds and keeps.
LoadGradients ==
    /\ pc = "idle"
    /\ LET s == load_gradients(heap, lists, "caller")
           g == Collect(s.heap, s.lists,
                        cut_after_load(cut_layer_gradients,
                                       s.lists[s.gradients_list]))
       IN  /\ heap' = g.heap
           /\ lists' = g.lists
           /\ cut_layer_gradients' = g.cut
           /\ gradients_list' = s.gradients_list
    /\ loaded' = (loaded \/ lists.caller # <<>>)
    /\ UNCHANGED <<hooks, training, runVars, hookVars, exVars>>

\* The server builds a gradient sequence with the contents vals, calls
\* load_gradients on it and lets go of it.
ServerSend(vals) ==
    /\ pc = "idle"
    /\ LET n == NewTensors(vals, heap)
           s == load_gradients(n.heap, [lists EXCEPT !.caller = n.list], "caller")
           l == IF s.gradients_list = "caller" THEN s.lists
                ELSE [s.lists EXCEPT !.caller = <<>>]
           g == Collect(s.heap, l,
                        cut_after_load(cut_layer_gradients, l[s.gradients_list]))
       IN  /\ heap' = g.heap
           /\ lists' = g.lists
           /\ cut_layer_gradients' = g.cut
           /\ gradients_list' = s.gradients_list
    /\ loaded' = (loaded \/ vals # <<>>)
    /\ UNCHANGED <<hooks, training, runVars, hookVars, exVars>>

\* ------------------------------------------- the caller (server side)
\* What the party that called load_gradients(G) can later do to its own G.
CallerAppend(v) ==
    /\ pc = "idle"
    /\ Len(lists.caller) < MaxCallerLen
    /\ LET a == NewAddr(heap)
           g == Collect([heap EXCEPT ![a] = v],
                        [lists EXCEPT !.caller = Append(@, a)],
                        cut_layer_gradients)
       IN  heap' = g.heap /\ lists' = g.lists /\ cut_layer_gradients' = g.cut
    /\ UNCHANGED <<gradients_list, loaded, hooks, training, runVars, hookVars,
                   exVars>>

CallerRemove(i) ==
    /\ pc = "idle"
    /\ i \in 1..Len(lists.caller)
    /\ LET c == lists.caller
           g == Collect(heap,
                        [lists EXCEPT !.caller =
                            SubSeq(c, 1, i - 1) \o SubSeq(c, i + 1, Len(c))],
                        cut_layer_gradients)
       IN  heap' = g.heap /\ lists' = g.lists /\ cut_layer_gradients' = g.cut
    /\ UNCHANGED <<gradients_list, loaded, hooks, training, runVars, hookVars,
                   exVars>>

\* G[i] = a new tensor.
CallerSetItem(i, v) ==
    /\ pc = "idle"
    /\ i \in 1..Len(lists.caller)
    /\ LET a == NewAddr(heap)
           g == Collect([heap EXCEPT ![a] = v],
                        [lists EXCEPT !.caller[i] = a],
                        cut_layer_gradients)
       IN  heap' = g.heap /\ lists' = g.lists /\ cut_layer_gradients' = g.cut
    /\ UNCHANGED <<gradients_list, loaded, hooks, training, runVars, hookVars,
                   exVars>>

\* An in-place update of the tensor G[i].
CallerMutate(i, v) ==
    /\ pc = "idle"
    /\ i \in 1..Len(lists.caller)
    /\ heap[lists.caller[i]] # v
    /\ heap' = [heap EXCEPT ![lists.caller[i]] = v]
    /\ UNCHANGED <<lists, gradients_list, cut_layer_gradients, loaded, hooks,
                   training, runVars, hookVars, exVars>>


\* ------------------------------------------------------ apply_gradients
\* The hook with a `return grad_output` as its last line.
apply_gradients_returning(clg, grad_input, grad_output) ==
    LET rebound == IF clg # None THEN clg ELSE grad_output
    IN  [ret |-> rebound, grad_output |-> rebound, cut_layer_gradients |-> clg]

\* The hook keeping the gradient it was called with when none is loaded.
apply_gradients_storing(clg, grad_input, grad_output) ==
    LET rebound == IF clg # None THEN clg ELSE grad_output
    IN  [ret |-> None, grad_output |-> rebound, cut_layer_gradients |-> rebound]

\* The hook.  `grad_output = self.cut_layer_gradients` rebinds the parameter
\* name inside the function; the function has no return statement, so it
\* returns None, and it assigns no attribute of self.
apply_gradients(clg, grad_input, grad_output) ==
    LET rebound == IF clg # None THEN clg ELSE grad_output
    IN  [ret |-> None, grad_output |-> rebound, cut_layer_gradients |-> clg]

\* The autodiff engine at a module with k registered backward hooks: each is
\* called with (module, grad_input, grad_output); a return value other than
\* None replaces grad_input, the gradient that continues to the layers before.
RECURSIVE RunHooks(_, _, _)
RunHooks(k, clg, gi) ==
    IF k = 0 THEN [grad |-> gi, cut_layer_gradients |-> clg, calls |-> 0]
    ELSE LET r == apply_gradients(clg, gi, GradOutput)
             rest == RunHooks(k - 1, r.cut_layer_gradients,
                              IF r.ret = None THEN gi ELSE r.ret)
         IN  [rest EXCEPT !.calls = @ + 1]

\* What continued past the cut layer, relative to the gradient in force.
Kind(g, clg) ==
    IF g = GradInput THEN "computed"
    ELSE IF g = clg /\ clg # None THEN "external" ELSE "other"

RECURSIVE SumOver(_, _)
SumOver(hk, S) ==
    IF S = {} THEN 0
    ELSE LET l == CHOOSE x \in S : TRUE IN hk[l] + SumOver(hk, S \ {l})

\* All registrations of the hook on the model's layers.
Registrations(hk) == SumOver(hk, Layers)

\* A backward pass that reaches layer l outside complete_train.
HookCall(l) ==
    /\ pc = "idle"
    /\ hooks[l] > 0
    /\ LET r == RunHooks(hooks[l], cut_layer_gradients, GradInput)
       IN  /\ cut_layer_gradients' = r.cut_layer_gradients
           /\ propagated' = Kind(r.grad, cut_layer_gradients)
           /\ hook_calls' = r.calls
    /\ UNCHANGED <<heap, lists, gradients_list, loaded, hooks, training, runVars,
                   exVars>>

\* ------------------------------------------------------- complete_train
\* A lookup that answers None where l[i] raises.
getitem_unchecked(l, i) ==
    IF i < Len(l) THEN [ok |-> TRUE, val |-> l[i + 1]]
    ELSE [ok |-> TRUE, val |-> None]

\* A lookup that answers the locally computed gradient where l[i] raises.
getitem_or_local(l, i) ==
    IF i < Len(l) THEN [ok |-> TRUE, val |-> l[i + 1]]
    ELSE [ok |-> TRUE, val |-> GradOutput]

\* Python's l[i] for i >= 0: the element, or IndexError.
getitem(l, i) ==
    IF i < Len(l) THEN [ok |-> TRUE, val |-> l[i + 1]]
    ELSE [ok |-> FALSE, val |-> None]

FirstIndex == 1

\* The first gradient read at the index the loop continues from.
FirstElement_at_index == FirstIndex

\* self.cut_layer_gradients = self.gradients_list[0]
FirstElement == 0

\* The index advanced without the comparison against the list's length.
NextIndex_unclamped(idx, n) == idx + 1

\* The index advanced modulo the list's length.
NextIndex_wrap(idx, n) == (idx + 1) % n

\* if gradients_index < (len(self.gradients_list) - 1): gradients_index += 1
NextIndex(idx, n) == IF idx < n - 1 THEN idx + 1 ELSE idx

\* 0-based position of tensor c in self.gradients_list, -1 when not in it.
PosOf(c) ==
    IF \E i \in 1..Len(GradientsList) : GradientsList[i] = c
    THEN (CHOOSE i \in 1..Len(GradientsList) : GradientsList[i] = c) - 1
    ELSE -1

InForce(c) == [pos |-> PosOf(c), grad |-> IF c \in Addr THEN heap[c] ELSE "none"]

\* The hook registered once more on every layer of the model.
register_backward_hook_all(hk, cl) == [l \in Layers |-> hk[l] + 1]

\* self.model.layerdict[cut_layer].register_backward_hook(self.apply_gradients)
register_backward_hook(hk, cl) == [hk EXCEPT ![cl] = @ + 1]

\* self.model.layerdict[cut_layer]: the layer of that name, or KeyError.
layerdict(cl) == [ok |-> cl \in Layers, layer |-> cl]

\* The mode switched before the layer is looked up.
model_train_first(reached, t) == TRUE

\* self.model.train() at line 95, reached only if line 92 raised nothing:
\* the network's training flag after the start of the call.
model_train(reached, t) == IF reached THEN TRUE ELSE t

\* Line 92 fails: the name is no key of layerdict.  Nothing after it runs.
\* Lines 92-129 otherwise: register the hook, model.train(), build the loader
\* (m batches), criterion and optimizer, then load the first gradient.
CompleteTrainBegin(cl, m) ==
    /\ pc = "idle"
    /\ Registrations(hooks) < MaxSessions
    /\ cut_layer' = cl
    /\ batch_id' = 0
    /\ used' = <<>>
    /\ opt_steps' = 0
    /\ LET d == layerdict(cl)
           r == getitem(GradientsList, FirstElement)
       IN  IF ~d.ok
           THEN /\ error' = "KeyError"
                /\ pc' = "raised"
                /\ num_batches' = 0
                /\ gradients_index' = 0
                /\ training' = model_train(FALSE, training)
                /\ UNCHANGED <<hooks, cut_layer_gradients>>
           ELSE /\ hooks' = register_backward_hook(hooks, d.layer)
                /\ training' = model_train(TRUE, training)
                /\ num_batches' = m
                /\ gradients_index' = FirstIndex
                /\ IF r.ok
                   THEN /\ cut_layer_gradients' = r.val
                        /\ error' = "none"
                        /\ pc' = IF m > 0 THEN "zero_grad" ELSE "done"
                   ELSE /\ cut_layer_gradients' = cut_layer_gradients
                        /\ error' = "IndexError"
                        /\ pc' = "raised"
    /\ UNCHANGED <<heap, lists, gradients_list, loaded, hookVars, exVars>>

\* optimizer.zero_grad()
ZeroGrad ==
    /\ pc = "zero_grad"
    /\ pc' = "forward"
    /\ UNCHANGED <<algVars, loaded, hooks, training, cut_layer, num_batches,
                   batch_id, gradients_index, used, opt_steps, error, hookVars,
                   exVars>>

\* outputs = self.model(examples)
Forward ==
    /\ pc = "forward"
    /\ pc' = "loss"
    /\ UNCHANGED <<algVars, loaded, hooks, training, cut_layer, num_batches,
                   batch_id, gradients_index, used, opt_steps, error, hookVars,
                   exVars>>

\* The loss computed and the optimizer stepped with no backward pass between.
Loss_then_step ==
    /\ pc = "loss"
    /\ pc' = "step"
    /\ UNCHANGED <<algVars, loaded, hooks, training, cut_layer, num_batches,
                   batch_id, gradients_index, used, opt_steps, error, hookVars,
                   exVars>>

\* loss = loss_criterion(outputs, labels)
Loss ==
    /\ pc = "loss"
    /\ pc' = "backward"
    /\ UNCHANGED <<algVars, loaded, hooks, training, cut_layer, num_batches,
                   batch_id, gradients_index, used, opt_steps, error, hookVars,
                   exVars>>

\* The layer the hook of this call was registered on.
SessionLayer == layerdict(cut_layer).layer

\* loss.backward(): the engine reaches the cut layer and runs its hooks, and
\* the hooks earlier calls left on the other layers.
Backward ==
    /\ pc = "backward"
    /\ LET r == RunHooks(hooks[SessionLayer], cut_layer_gradients, GradInput)
           o == RunHooks(Registrations(hooks) - hooks[SessionLayer],
                         r.cut_layer_gradients, GradInput)
       IN  /\ cut_layer_gradients' = o.cut_layer_gradients
           /\ propagated' = Kind(r.grad, cut_layer_gradients)
           /\ hook_calls' = r.calls
    /\ used' = Append(used, InForce(cut_layer_gradients))
    /\ pc' = "step"
    /\ UNCHANGED <<heap, lists, gradients_list, loaded, hooks, training, cut_layer,
                   num_batches, batch_id, gradients_index, opt_steps, error, exVars>>

\* optimizer.step()
OptimizerStep ==
    /\ pc = "step"
    /\ pc' = "next"
    /\ opt_steps' = opt_steps + 1
    /\ UNCHANGED <<algVars, loaded, hooks, training, cut_layer, num_batches,
                   batch_id, gradients_index, used, error, hookVars, exVars>>

\* Lines 142-145, then the loop's next iteration or its end.
NextGradient ==
    /\ pc = "next"
    /\ LET idx == NextIndex(gradients_index, Len(GradientsList))
           r == getitem(GradientsList, idx)
       IN  /\ gradients_index' = idx
           /\ IF r.ok
              THEN /\ cut_layer_gradients' = r.val
                   /\ batch_id' = batch_id + 1
                   /\ pc' = IF batch_id + 1 < num_batches THEN "zero_grad" ELSE "done"
                   /\ error' = error
              ELSE /\ cut_layer_gradients' = cut_layer_gradients
                   /\ batch_id' = batch_id
                   /\ pc' = "raised"
                   /\ error' = "IndexError"
    /\ UNCHANGED <<heap, lists, gradients_list, loaded, hooks, training, cut_layer,
                   num_batches, used, opt_steps, hookVars, exVars>>

\* The exception of the forward pass caught and the loop continued.
ForwardRaises_swallowed ==
    /\ pc = "forward"
    /\ pc' = "next"
    /\ error' = "RuntimeError"
    /\ UNCHANGED <<algVars, loaded, hooks, training, cut_layer, num_batches,
                   batch_id, gradients_index, used, opt_steps, hookVars, exVars>>

\* The forward pass of this batch raises (a shape mismatch, a numerical
\* error); complete_train has no try, so the exception leaves the loop.
ForwardRaises ==
    /\ pc = "forward"
    /\ pc' = "raised"
    /\ error' = "RuntimeError"
    /\ UNCHANGED <<algVars, loaded, hooks, training, cut_layer, num_batches,
                   batch_id, gradients_index, used, opt_steps, hookVars, exVars>>

\* The backward pass of this batch raises, before the engine reaches the cut
\* layer (reached = FALSE) or after it ran the hooks there.
BackwardRaises(reached) ==
    /\ pc = "backward"
    /\ pc' = "raised"
    /\ error' = "RuntimeError"
    /\ IF reached
       THEN LET r == RunHooks(hooks[SessionLayer], cut_layer_gradients, GradInput)
            IN  /\ cut_layer_gradients' = r.cut_layer_gradients
                /\ propagated' = Kind(r.grad, cut_layer_gradients)
                /\ hook_calls' = r.calls
       ELSE UNCHANGED <<cut_layer_gradients, hookVars>>
    /\ UNCHANGED <<heap, lists, gradients_list, loaded, hooks, training, cut_layer,
                   num_batches, batch_id, gradients_index, used, opt_steps, exVars>>

\* A return that first removes the hook this call registered.
Return_removing ==
    /\ pc \in {"done", "raised"}
    /\ pc' = "idle"
    /\ cut_layer' = NoLayer
    /\ num_batches' = 0
    /\ batch_id' = 0
    /\ gradients_index' = 0
    /\ used' = <<>>
    /\ opt_steps' = 0
    /\ error' = "none"
    /\ hooks' = IF cut_layer \in Layers THEN [hooks EXCEPT ![cut_layer] = @ - 1]
                 ELSE hooks
    /\ UNCHANGED <<algVars, loaded, training, hookVars, exVars>>

\* A return that also clears the gradient in force.
Return_clearing ==
    /\ pc \in {"done", "raised"}
    /\ pc' = "idle"
    /\ cut_layer' = NoLayer
    /\ num_batches' = 0
    /\ batch_id' = 0
    /\ gradients_index' = 0
    /\ used' = <<>>
    /\ opt_steps' = 0
    /\ error' = "none"
    /\ cut_layer_gradients' = None
    /\ UNCHANGED <<heap, lists, gradients_list, loaded, hooks, training, hookVars,
                   exVars>>

\* complete_train returns, or its exception reaches the caller: the frame
\* and its locals are gone.
Return ==
    /\ pc \in {"done", "raised"}
    /\ pc' = "idle"
    /\ cut_layer' = NoLayer
    /\ num_batches' = 0
    /\ batch_id' = 0
    /\ gradients_index' = 0
    /\ used' = <<>>
    /\ opt_steps' = 0
    /\ error' = "none"
    /\ UNCHANGED <<algVars, loaded, hooks, training, hookVars, exVars>>

\* ----------------------------------------------------- extract_features
\* sampler.get() of the all-inclusive sampler over n examples: every index of
\* range(n) once, in some order (SubsetRandomSampler) or in order (list).
Sampler_get(n) ==
    {o \in [1..n -> 0..(n - 1)] : \A i, j \in 1..n : o[i] = o[j] => i = j}

\* self.model.forward_to(inputs, cut_layer) in evaluation mode: row j of the
\* result is the cut layer's activation for input j of the batch.
forward_to(inputs) == [j \in 1..Len(inputs) |-> [feature_of |-> inputs[j]]]

\* The data loader's next batch: the next batch_size indices of the sampler
\* (fewer at the end; nothing is dropped), collated into inputs and targets.
NextBatch ==
    LET n == Min(batch_size, Len(order) - pos)
    IN  [inputs  |-> [j \in 1..n |-> dataset[order[pos + j] + 1].input],
         targets |-> [j \in 1..n |-> dataset[order[pos + j] + 1].label]]

\* The inner loop paired every row with the first target of the batch.
BatchPairs_first(logits, targets) ==
    [i \in 1..Len(logits) |-> <<logits[i], targets[1]>>]

\* for i in np.arange(logits.shape[0]): append((logits[i], targets[i]))
BatchPairs(logits, targets) ==
    [i \in 1..Len(logits) |-> <<logits[i], targets[i]>>]

\* The sampler's constructor: range(dataset.num_train_examples()), kept as
\* its length.
num_train_examples(d) == Len(d)

\* Indices drawn with replacement: some may repeat and some be left out.
Sampler_get_on_replacement(fw, n) ==
    IF fw \in {"mindspore", "tensorflow"}
    THEN {[i \in 1..n |-> i - 1]}
    ELSE [1..n -> 0..(n - 1)]

\* Sampler.get(): list(range(n)) with MindSpore or TensorFlow configured, a
\* SubsetRandomSampler over range(n) otherwise.
Sampler_get_on(fw, n) ==
    IF fw \in {"mindspore", "tensorflow"}
    THEN {[i \in 1..n |-> i - 1]}
    ELSE Sampler_get(n)

\* Sampler.trainset_size(): len(self.all_inclusive).
trainset_size(n) == n

\* A mode switch that leaves the network as it was.
model_eval_keep(t) == t

\* self.model.eval(): the network's training flag after the call.
model_eval(t) == FALSE

\* A context that leaves gradient tracking as it was.
no_grad_keep(g) == g

\* with torch.no_grad(): gradient tracking inside the block.
no_grad(g) == FALSE

\* Lines 53-72: model.eval(), the data loader over the sampler's indices.
ExtractBegin(o, bs) ==
    /\ epc \in {"idle", "returned"}
    /\ pc = "idle"
    /\ entry_training' = training
    /\ training' = model_eval(training)
    /\ forwards' = {}
    /\ order' = o
    /\ batch_size' = bs
    /\ pos' = 0
    /\ feature_dataset' = <<>>
    /\ epc' = "loop"
    /\ UNCHANGED <<algVars, loaded, hooks, runVars, hookVars, dataset, samplerVars,
                   skewVars>>

\* One iteration of `for inputs, targets, *__ in data_loader`.
ExtractBatch ==
    /\ epc = "loop"
    /\ pos < Len(order)
    /\ LET b == NextBatch
           logits == forward_to(b.inputs)
       IN  /\ feature_dataset' = feature_dataset \o BatchPairs(logits, b.targets)
           /\ pos' = pos + Len(b.inputs)
    /\ forwards' = forwards \cup {[training |-> training,
                                   grad_enabled |-> no_grad(TRUE)]}
    /\ UNCHANGED <<algVars, loaded, hooks, training, runVars, hookVars, dataset,
                   order, batch_size, epc, entry_training, samplerVars,
                   skewVars>>

\* The loader is exhausted: log and return feature_dataset.
ExtractReturn ==
    /\ epc = "loop"
    /\ pos = Len(order)
    /\ epc' = "returned"
    /\ UNCHANGED <<algVars, loaded, hooks, training, runVars, hookVars, dataset,
                   order, batch_size, pos, feature_dataset, entry_training,
                   forwards, samplerVars, skewVars>>

\* The caller has taken the returned features: the frame and its locals are
\* gone.
ExtractDone ==
    /\ epc = "returned"
    /\ epc' = "idle"
    /\ order' = <<>>
    /\ batch_size' = 1
    /\ pos' = 0
    /\ feature_dataset' = <<>>
    /\ entry_training' = FALSE
    /\ forwards' = {}
    /\ UNCHANGED <<algVars, loaded, hooks, training, runVars, hookVars, dataset,
                   samplerVars, skewVars>>

\* ---------------------------------------------------- all-inclusive sampler
\* sampler.get(), iterated once: the indices it yields.
SamplerGet ==
    /\ order' \in Sampler_get_on(framework, all_inclusive)
    /\ UNCHANGED <<algVars, loaded, hooks, training, runVars, hookVars, dataset,
                   batch_size, epc, pos, feature_dataset, entry_training, forwards,
                   samplerVars, skewVars>>

\* sampler.trainset_size()
SamplerSize ==
    /\ size' = trainset_size(all_inclusive)
    /\ UNCHANGED <<algVars, loaded, hooks, training, runVars, hookVars, dataset,
                   callVars, all_inclusive, framework, skewVars>>

\* ------------------------------------------------ create_dirichlet_skew
nonSkewVars == <<algVars, loaded, hooks, training, runVars, hookVars, dataset,
                 callVars, samplerVars>>

RECURSIVE SeqSum(_)
SeqSum(w) == IF w = <<>> THEN 0 ELSE Head(w) + SeqSum(Tail(w))

\* The least and the greatest element of a non-empty sequence.
SeqMin(w) == CHOOSE x \in {w[i] : i \in 1..Len(w)} : \A i \in 1..Len(w) : x <= w[i]
SeqMax(w) == CHOOSE x \in {w[i] : i \in 1..Len(w)} : \A i \in 1..Len(w) : x >= w[i]

\* np.random.dirichlet(np.repeat(concentration, n)): n non-negative floats,
\* here multiples of 1/Unit, whose sum is 1 up to rounding.
Dirichlet(n) ==
    {w \in [1..n -> 0..(Unit + 1)] : SeqSum(w) \in (Unit - 1)..(Unit + 1)}

\* proportions / proportions.sum() for the draw w (each w[i] / Unit).
normalise(w) == [num |-> w, den |-> SeqSum(w)]

\* The size of the largest partition taken for that of the smallest.
min_size_of_largest(p, ts) == [num |-> SeqMax(p.num) * ts, den |-> p.den]

\* np.min(proportions * total_size)
min_size_of(p, ts) == [num |-> SeqMin(p.num) * ts, den |-> p.den]

\* min_size < min_partition_size, for the fraction f and the number k.
Less(f, k) == f.num < k * f.den

\* Lines 7-12: the call; `if min_partition_size is not None`, min_size = 0.
SkewCall(ts, n, mps) ==
    /\ skew_pc = "idle"
    /\ total_size' = ts
    /\ number_partitions' = n
    /\ min_partition_size' = mps
    /\ proportions' = [num |-> <<>>, den |-> 1]
    /\ min_size' = [num |-> 0, den |-> 1]
    /\ last_draw' = <<>>
    /\ skew_pc' = IF mps # <<>> THEN "while" ELSE "else"
    /\ UNCHANGED nonSkewVars

\* Line 13: while min_size < min_partition_size.
SkewTest ==
    /\ skew_pc = "while"
    /\ skew_pc' = IF Less(min_size, min_partition_size[1]) THEN "body" ELSE "return"
    /\ UNCHANGED <<nonSkewVars, total_size, number_partitions, min_partition_size,
                   proportions, min_size, last_draw>>

\* Lines 14-18: a draw, its normalisation, the size of its smallest partition.
SkewDraw(w) ==
    /\ skew_pc = "body"
    /\ last_draw' = w
    /\ proportions' = normalise(w)
    /\ min_size' = min_size_of(normalise(w), total_size)
    /\ skew_pc' = "while"
    /\ UNCHANGED <<nonSkewVars, total_size, number_partitions, min_partition_size>>

\* Lines 21-22: the single draw made when min_partition_size is None.
SkewElseDraw(w) ==
    /\ skew_pc = "else"
    /\ last_draw' = w
    /\ proportions' = [num |-> w, den |-> Unit]
    /\ skew_pc' = "return"
    /\ UNCHANGED <<nonSkewVars, total_size, number_partitions, min_partition_size,
                   min_size>>

\* Line 24: return proportions; UnboundLocalError if the name was never bound.
SkewReturn ==
    /\ skew_pc = "return"
    /\ skew_pc' = IF proportions.num = <<>> THEN "raised" ELSE "returned"
    /\ UNCHANGED <<nonSkewVars, total_size, number_partitions, min_partition_size,
                   proportions, min_size, last_draw>>

\* The caller has the result or the exception: the frame is gone.
SkewDone ==
    /\ skew_pc \in {"returned", "raised"}
    /\ skew_pc' = "idle"
    /\ total_size' = 0
    /\ number_partitions' = 1
    /\ min_partition_size' = <<>>
    /\ proportions' = [num |-> <<>>, den |-> 1]
    /\ min_size' = [num |-> 0, den |-> 1]
    /\ last_draw' = <<>>
    /\ UNCHANGED nonSkewVars

\* ------------------------------------------------------- specification
\* The state outside the Algorithm's own fields: the network has no hook, no
\* call is in progress.
Quiet ==
    /\ loaded = FALSE
    /\ hooks = [l \in Layers |-> 0]
    /\ pc = "idle"
    /\ cut_layer = NoLayer
    /\ num_batches = 0
    /\ batch_id = 0
    /\ gradients_index = 0
    /\ used = <<>>
    /\ opt_steps = 0
    /\ error = "none"
    /\ propagated = "none"
    /\ hook_calls = 0
    /\ order = <<>>
    /\ batch_size = 1
    /\ epc = "idle"
    /\ pos = 0
    /\ feature_dataset = <<>>
    /\ entry_training = FALSE
    /\ forwards = {}
    /\ size = -1
    /\ skew_pc = "idle"
    /\ total_size = 0
    /\ number_partitions = 1
    /\ min_partition_size = <<>>
    /\ proportions = [num |-> <<>>, den |-> 1]
    /\ min_size = [num |-> 0, den |-> 1]
    /\ last_draw = <<>>

\* Algorithm.__init__: gradients_list = [], cut_layer_gradients = None.
New ==
    /\ heap = [a \in Addr |-> Free]
    /\ lists = [caller |-> <<>>, own |-> <<>>]
    /\ gradients_list = "own"
    /\ cut_layer_gradients = None

Init ==
    /\ New
    /\ Quiet
    /\ training = FALSE
    /\ dataset = <<>>
    /\ all_inclusive = 0
    /\ framework = "pytorch"

\* The gradient sequences a server can send.
GradSeqs == UNION {[1..n -> Grads] : n \in 0..MaxLen}

\* The steps of a complete_train call that has begun.
TrainSteps ==
    \/ ZeroGrad
    \/ Forward
    \/ Loss
    \/ Backward
    \/ OptimizerStep
    \/ NextGradient
    \/ Return

\* The training protocol: gradients arrive, training sessions run, backward
\* passes reach the hook.
Next ==
    \/ \E vals \in GradSeqs : ServerSend(vals)
    \/ \E l \in Layers : HookCall(l)
    \/ \E m \in 0..MaxBatches : CompleteTrainBegin(SplitLayer, m)
    \/ TrainSteps

Spec == Init /\ [][Next]_vars

\* The caller keeps the list it passed to load_gradients (at most
\* MaxCallerLen gradients) and changes it between the calls; training
\* sessions here are over at most one batch.
NextAlias ==
    \/ LoadGradients
    \/ \E v \in Grads : CallerAppend(v)
    \/ \E i \in 1..MaxCallerLen : CallerRemove(i)
    \/ \E i \in 1..MaxCallerLen, v \in Grads : CallerSetItem(i, v)
    \/ \E i \in 1..MaxCallerLen, v \in Grads : CallerMutate(i, v)
    \/ \E l \in Layers : HookCall(l)
    \/ \E m \in 0..1 : CompleteTrainBegin(SplitLayer, m)
    \/ TrainSteps

SpecAlias == Init /\ [][NextAlias]_vars

\* The datasets extract_features is given: sample k is (input k, its label).
Datasets ==
    UNION {{[i \in 1..n |-> [input |-> i - 1, label |-> y[i]]] : y \in [1..n -> Labels]}
           : n \in 0..MaxSamples}

\* extract_features on a new Algorithm, over any dataset, with the model in
\* either mode.
InitExtract ==
    /\ New
    /\ Quiet
    /\ training \in BOOLEAN
    /\ dataset \in Datasets
    /\ all_inclusive = num_train_examples(dataset)
    /\ framework = "pytorch"

NextExtract ==
    \/ \E bs \in 1..MaxBatchSize : \E o \in Sampler_get(Len(dataset)) : ExtractBegin(o, bs)
    \/ ExtractBatch
    \/ ExtractReturn

SpecExtract == InitExtract /\ [][NextExtract]_vars

\* A training session in which the forward or the backward pass of a batch
\* may raise.
NextFail ==
    \/ Next
    \/ ForwardRaises
    \/ \E reached \in BOOLEAN : BackwardRaises(reached)

SpecFail == Init /\ [][NextFail]_vars

\* The cut layer is a configuration value: a layer of the model, or a name
\* the model's layer dictionary does not have.
CutLayers == Layers \cup {"missing"}

NextLayers ==
    \/ \E vals \in {<<>>, <<"g0">>, <<"g0", "g1">>} : ServerSend(vals)
    \/ \E l \in Layers : HookCall(l)
    \/ \E cl \in CutLayers, m \in 0..2 : CompleteTrainBegin(cl, m)
    \/ TrainSteps

InitLayers ==
    /\ New
    /\ Quiet
    /\ training \in BOOLEAN
    /\ dataset = <<>>
    /\ all_inclusive = 0
    /\ framework = "pytorch"

SpecLayers == InitLayers /\ [][NextLayers]_vars

\* Every operation of the Algorithm in any order: gradients are loaded,
\* features extracted over a two-sample dataset, one-batch training sessions
\* run to their end or abort, backward passes reach the hook.
InitFull ==
    /\ New
    /\ Quiet
    /\ training \in BOOLEAN
    /\ dataset = <<[input |-> 0, label |-> "cat"], [input |-> 1, label |-> "dog"]>>
    /\ all_inclusive = num_train_examples(dataset)
    /\ framework = "pytorch"

NextFull ==
    \/ /\ epc = "idle"
       /\ \/ \E vals \in {<<>>, <<"g0">>, <<"g0", "g1">>} : ServerSend(vals)
          \/ \E l \in Layers : HookCall(l)
          \/ \E m \in 0..1 : CompleteTrainBegin(SplitLayer, m)
          \/ TrainSteps
          \/ ForwardRaises
          \/ \E reached \in BOOLEAN : BackwardRaises(reached)
    \/ \E bs \in 1..2 : \E o \in Sampler_get_on(framework, all_inclusive) :
           ExtractBegin(o, bs)
    \/ ExtractBatch
    \/ ExtractReturn
    \/ ExtractDone

SpecFull == InitFull /\ [][NextFull]_vars

\* A sampler built on any data source, under each framework.
InitSampler ==
    /\ New
    /\ Quiet
    /\ training = FALSE
    /\ dataset \in Datasets
    /\ all_inclusive = num_train_examples(dataset)
    /\ framework \in Frameworks

NextSampler ==
    \/ SamplerGet
    \/ SamplerSize

SpecSampler == InitSampler /\ [][NextSampler]_vars


\* The values min_partition_size is given: None, or a number.
MinSizes == {<<>>} \cup {<<k>> : k \in (-1)..MaxMin}

\* create_dirichlet_skew called with any arguments, any number of times.
NextSkew ==
    \/ \E ts \in 0..MaxTotal, n \in 1..MaxPartitions, mps \in MinSizes :
           SkewCall(ts, n, mps)
    \/ SkewTest
    \/ \E w \in Dirichlet(number_partitions) : SkewDraw(w)
    \/ \E w \in Dirichlet(number_partitions) : SkewElseDraw(w)
    \/ SkewReturn
    \/ SkewDone

SpecSkew == Init /\ [][NextSkew]_vars


\* ---------------------------------------------------------------- claims
InTrain == pc # "idle"

\* C1: with N >= 1 gradients loaded and a run over M >= N batches, the
\* gradient in force during the backward pass of batch b is the list element
\* at position b for b < N and the one at position N - 1 for b >= N, so no
\* element is skipped.
C1_InOrderClamped ==
    (InTrain /\ Len(GradientsList) >= 1 /\ num_batches >= Len(GradientsList))
        => \A b \in 0..(Len(used) - 1) :
               used[b + 1].pos = Min(b, Len(GradientsList) - 1)

\* C2: with [g0, g1] loaded and a run over exactly 3 batches, batch 0's
\* backward pass has g0 in force, batch 1's g1 and batch 2's g1 again, and
\* the run ends without an error.
C2_TwoGradientsThreeBatches ==
    (InTrain /\ Contents(heap, GradientsList) = <<"g0", "g1">> /\ num_batches = 3)
        => /\ pc # "raised"
           /\ error = "none"
           /\ \A b \in 0..(Len(used) - 1) :
                  used[b + 1] = [pos |-> Min(b, 1),
                                 grad |-> IF b = 0 THEN "g0" ELSE "g1"]
           /\ pc = "backward" =>
                  InForce(cut_layer_gradients) =
                      [pos |-> Min(batch_id, 1),
                       grad |-> IF batch_id = 0 THEN "g0" ELSE "g1"]
           /\ pc = "done" => Len(used) = 3

C2_Witness ==
    /\ pc = "done"
    /\ Contents(heap, GradientsList) = <<"g0", "g1">>
    /\ num_batches = 3
    /\ Len(used) = 3
    /\ used[3].grad = "g1"

\* C3: in every state of complete_train with N >= 1 gradients loaded, the
\* local gradients_index, its initial value included, is at most N - 1.
C3_IndexBelowLength ==
    (InTrain /\ Len(GradientsList) >= 1) => gradients_index <= Len(GradientsList) - 1

\* C4: with a non-empty gradient list, of length 1 included, complete_train
\* never fails with an out-of-range access to the list, whatever the number
\* of batches.
C4_NoIndexError ==
    (InTrain /\ Len(GradientsList) >= 1) => (error # "IndexError" /\ pc # "raised")

\* C5: complete_train called with an empty gradient list fails at its first
\* access to the list, before any batch: no forward, backward or optimizer
\* step runs and cut_layer_gradients keeps the value it had.
C5_EmptyListFailsFirst ==
    /\ []((InTrain /\ Len(GradientsList) = 0)
            => (pc = "raised" /\ error = "IndexError" /\ used = <<>> /\ batch_id = 0))
    /\ [][((\E m \in 0..MaxBatches : CompleteTrainBegin(SplitLayer, m))
             /\ Len(GradientsList) = 0)
            => (pc' = "raised" /\ cut_layer_gradients' = cut_layer_gradients)]_vars

C5_Witness ==
    /\ pc = "raised"
    /\ error = "IndexError"
    /\ Len(GradientsList) = 0
    /\ Registrations(hooks) = 1
    /\ cut_layer_gradients = None

\* C6: a hook invocation while cut_layer_gradients is None lets the locally
\* computed gradient continue and changes no state of the Algorithm instance.
C6_HookIdentityWhenNone ==
    [][(((\E l \in Layers : HookCall(l)) \/ Backward) /\ cut_layer_gradients = None)
        => (propagated' = "computed" /\ UNCHANGED <<algVars, hooks, training>>)]_vars

C6_Witness ==
    /\ propagated = "computed"
    /\ cut_layer_gradients = None
    /\ Registrations(hooks) > 0
    /\ pc = "idle"

\* C7: a hook invocation while a gradient is loaded makes the externally
\* supplied cut_layer_gradients, not the locally computed gradient, the one
\* that continues through the front partition.
C7_SubstitutionVisible ==
    (pc = "step" /\ cut_layer_gradients # None) => propagated = "external"

\* C8: after any load_gradients call the gradient list is exactly the
\* sequence passed to that call, in length and order, with nothing of an
\* earlier list left over.
C8_LoadOverwrites ==
    [][LoadGradients
        => Contents(heap', lists'[gradients_list']) = Contents(heap, lists.caller)]_vars

\* An empty list was loaded over a list a training session had run with.
C8_Witness ==
    /\ pc = "idle"
    /\ GradientsList = <<>>
    /\ cut_layer_gradients # None

CallerStep ==
    \/ \E v \in Grads : CallerAppend(v)
    \/ \E i \in 1..MaxCallerLen : CallerRemove(i)
    \/ \E i \in 1..MaxCallerLen, v \in Grads : CallerSetItem(i, v)
    \/ \E i \in 1..MaxCallerLen, v \in Grads : CallerMutate(i, v)

CutContent(h, c) == IF c \in Addr THEN h[c] ELSE "none"

\* C9: load_gradients keeps a deep, independent copy: what the caller later
\* does to its sequence G or to a gradient in it changes neither the gradient
\* list nor the gradient in force, and no operation of Algorithm changes G.
C9_DeepIndependentCopy ==
    /\ [][\/ /\ Contents(heap', lists'[gradients_list']) = Contents(heap, GradientsList)
             /\ CutContent(heap', cut_layer_gradients')
                    = CutContent(heap, cut_layer_gradients)
          \/ ~CallerStep]_vars
    /\ [][\/ Contents(heap', lists'.caller) = Contents(heap, lists.caller)
          \/ CallerStep]_vars

\* The caller changed its list after a load.
C9_Witness ==
    /\ pc = "idle"
    /\ Len(GradientsList) = 2
    /\ Len(lists.caller) = 2
    /\ Contents(heap, GradientsList) # Contents(heap, lists.caller)


C11_GradientOnlyAfterLoad ==
    /\ cut_layer_gradients # None => loaded
    /\ (~loaded /\ hook_calls > 0) => propagated = "computed"

\* Before any load, a backward pass reached the hook a failed training
\* session had registered, and features were extracted.
C11_Witness ==
    /\ ~loaded
    /\ hook_calls > 0
    /\ epc = "returned"
    /\ cut_layer_gradients = None

\* WARMUP: no external gradient is loaded for the hook.
WARMUP == cut_layer_gradients = None

\* C12 as stated: an instance starts in WARMUP, and immediately after
\* load_gradients returns with a non-empty sequence it is ACTIVE: a hook
\* invocation at that point sees an external gradient loaded.
C12_ActiveAfterLoad ==
    /\ WARMUP
    /\ [][((\E vals \in GradSeqs : ServerSend(vals)) /\ Len(lists'[gradients_list']) >= 1)
            => ~WARMUP']_vars

\* C12 amended: an instance starts in WARMUP and load_gradients alone never
\* leaves it; WARMUP is left only where a complete_train call begins with a
\* non-empty gradient list, whose first element is then in force.
C12_ActiveAtTrainStart ==
    /\ WARMUP
    /\ [][(WARMUP /\ ~WARMUP')
            => /\ pc = "idle"
               /\ pc' \in {"zero_grad", "done"}
               /\ Len(GradientsList) >= 1
               /\ cut_layer_gradients' = GradientsList[1]]_vars

\* After a non-empty load, a backward pass reached the hook that a failed
\* training session had registered, and found no gradient.
C12_Witness ==
    /\ WARMUP
    /\ pc = "idle"
    /\ Len(GradientsList) >= 1
    /\ Registrations(hooks) = 1
    /\ hook_calls = 1
    /\ propagated = "computed"

\* The steps of the batch in progress that precede the gradient update.
BeforeUpdate == {"zero_grad", "forward", "loss", "backward", "step"}

\* C13: within every batch of complete_train the steps are, each once and in
\* this order, zero_grad, forward, loss, backward (the hook fires), optimizer
\* step and only then the update of the index and of cut_layer_gradients; the
\* gradient in force at batch b's backward pass is the one selected before
\* batch b began, and the index advances by at most one per batch.
C13_StepOrder ==
    /\ [](/\ pc \in {"zero_grad", "forward", "loss", "backward"}
              => (Len(used) = batch_id /\ opt_steps = batch_id)
          /\ pc = "step" => (Len(used) = batch_id + 1 /\ opt_steps = batch_id)
          /\ pc = "next" => (Len(used) = batch_id + 1 /\ opt_steps = batch_id + 1)
          /\ pc = "done" => (Len(used) = num_batches /\ opt_steps = num_batches
                              /\ batch_id = num_batches))
    /\ [][/\ pc = "zero_grad" => pc' = "forward"
          /\ pc = "forward" => pc' = "loss"
          /\ pc = "loss" => pc' = "backward"
          /\ pc = "backward" => (pc' = "step" /\ hook_calls' >= 1
                                  /\ used' = Append(used, InForce(cut_layer_gradients)))
          /\ pc = "step" => pc' = "next"
          /\ pc = "next" => (pc' \in {"zero_grad", "done", "raised"}
                              /\ gradients_index' \in {gradients_index,
                                                        gradients_index + 1})
          /\ pc \in BeforeUpdate
                 => (gradients_index' = gradients_index
                     /\ cut_layer_gradients' = cut_layer_gradients
                     /\ batch_id' = batch_id)]_vars

\* A run of two batches over three gradients has ended: two backward passes,
\* two optimizer steps, the index advanced once.
C13_Witness ==
    /\ pc = "done"
    /\ num_batches = 2
    /\ Len(GradientsList) = 3
    /\ opt_steps = 2
    /\ Len(used) = 2
    /\ gradients_index = 2
    /\ hook_calls >= 1

\* C14: across the batches of one complete_train run the list position of
\* the gradient in force never decreases and never wraps around; once the
\* last position N - 1 has been in force for a batch, it is in force for
\* every later batch of the run.
C14_PositionMonotone ==
    InTrain =>
        \A i, j \in 1..Len(used) :
            i < j => /\ used[i].pos <= used[j].pos
                     /\ used[i].pos = Len(GradientsList) - 1
                            => used[j].pos = Len(GradientsList) - 1

\* Three gradients, three batches: the last position was in force twice.
C14_Witness ==
    /\ pc = "done"
    /\ Len(GradientsList) = 3
    /\ Len(used) = 3
    /\ used[1].pos = 0
    /\ used[2].pos = 2
    /\ used[3].pos = 2

\* C15: each complete_train call registers apply_gradients exactly once, on
\* the layer cut_layer names in the model's layer dictionary and on no other
\* layer, before the first batch's backward pass, so that every backward
\* pass of the session reaching that layer invokes the hook.
C15_RegisteredOnceAtCutLayer ==
    /\ [](pc \in BeforeUpdate => hooks[cut_layer] >= 1)
    /\ [][/\ (pc = "idle" /\ pc' # "idle" /\ cut_layer' \in Layers)
                 => hooks' = [hooks EXCEPT ![cut_layer'] = @ + 1]
          /\ hooks' # hooks => (pc = "idle" /\ pc' # "idle")
          /\ pc = "backward" => (hook_calls' = hooks[cut_layer] /\ hook_calls' >= 1)]_vars

\* A second session, cut at another layer than the first, is past its
\* backward pass: one registration on each layer, one invocation.
C15_Witness ==
    /\ pc = "step"
    /\ cut_layer = "fc"
    /\ hooks = [l \in Layers |-> 1]
    /\ hook_calls = 1

\* C16: if the forward or the backward pass of batch k raises, the batch
\* loop aborts with no retry: no optimizer step for batch k, the index and
\* cut_layer_gradients stay at the value in force for batch k, no batch
\* after k is processed, and the exception propagates to the caller.
C16_RaiseAbortsLoop ==
    /\ []((pc = "raised" /\ error = "RuntimeError") => opt_steps = batch_id)
    /\ [][/\ (ForwardRaises \/ \E reached \in BOOLEAN : BackwardRaises(reached))
                 => /\ pc' = "raised"
                    /\ error' = "RuntimeError"
                    /\ opt_steps' = opt_steps
                    /\ batch_id' = batch_id
                    /\ gradients_index' = gradients_index
                    /\ cut_layer_gradients' = cut_layer_gradients
          /\ (error = "RuntimeError" /\ pc # "idle")
                 => (pc = "raised" /\ pc' = "idle" /\ error' = "none")]_vars

\* The backward pass of the second of three batches raised after the hook
\* had run: one optimizer step was made, that of the first batch.
C16_Witness ==
    /\ pc = "raised"
    /\ error = "RuntimeError"
    /\ num_batches = 3
    /\ batch_id = 1
    /\ opt_steps = 1
    /\ Len(used) = 1
    /\ hook_calls = 1

\* C17: every forward_to pass of extract_features runs with the network in
\* evaluation mode and with gradient tracking disabled, whatever mode the
\* network was in at the call, also right after a complete_train call that
\* left it in training mode.
C17_ForwardInEvalNoGrad ==
    \A f \in forwards : ~f.training /\ ~f.grad_enabled

\* extract_features was called with the network in training mode, after a
\* training session, and has made its forward passes.
C17_Witness ==
    /\ epc = "returned"
    /\ entry_training
    /\ Registrations(hooks) >= 1
    /\ forwards # {}

\* A step of an extract_features call: its start, a batch, its return.
InExtract == epc # "idle" \/ epc' # "idle"

\* C18 as stated: extract_features has no side effect beyond computing and
\* logging: the gradient list, the loaded cut-layer gradient, the hooks on
\* the model and the model's training/evaluation mode are the same after the
\* call as before it.
C18_NoSideEffect ==
    /\ [](epc = "returned" => training = entry_training)
    /\ [][InExtract => UNCHANGED <<algVars, hooks>>]_vars

\* C18 amended: extract_features leaves the gradient list, the loaded
\* cut-layer gradient and the hooks as they were, and leaves the model in
\* evaluation mode whatever its mode was before the call.
C18_LeavesEvalMode ==
    /\ [](epc = "returned" => ~training)
    /\ [][InExtract => UNCHANGED <<algVars, hooks>>]_vars

\* extract_features has returned after a training session with a gradient
\* in force: the model was in training mode and is in evaluation mode.
C18_Witness ==
    /\ epc = "returned"
    /\ entry_training
    /\ ~training
    /\ cut_layer_gradients # None
    /\ Registrations(hooks) >= 1
    /\ feature_dataset # <<>>

\* C19: complete_train called with a cut_layer that is not a layer of the
\* model fails immediately: before the model is switched to training mode,
\* before any hook is registered, before cut_layer_gradients is changed and
\* before any batch is processed, and nothing is retried.
C19_MissingLayerFailsFirst ==
    /\ []((pc # "idle" /\ cut_layer \notin Layers)
            => (pc = "raised" /\ error = "KeyError" /\ used = <<>>
                /\ batch_id = 0 /\ opt_steps = 0))
    /\ [][/\ (pc = "idle" /\ pc' # "idle" /\ cut_layer' \notin Layers)
                 => (training' = training /\ hooks' = hooks
                     /\ cut_layer_gradients' = cut_layer_gradients)
          /\ (pc = "raised" /\ error = "KeyError") => pc' = "idle"]_vars

\* With gradients loaded and the model in evaluation mode, complete_train
\* was called with a name the layer dictionary does not have.
C19_Witness ==
    /\ pc = "raised"
    /\ error = "KeyError"
    /\ cut_layer = "missing"
    /\ ~training
    /\ Registrations(hooks) = 0
    /\ Len(GradientsList) >= 1
    /\ cut_layer_gradients = None

\* C20: for the all-inclusive sampler built on a data source with n training
\* examples, get() covers every index of 0..n-1 exactly once and no other
\* index (a permutation with PyTorch, the ordered list with MindSpore and
\* TensorFlow), trainset_size() equals n, and repeated get() calls leave the
\* index range unchanged.
C20_AllInclusive ==
    /\ [](/\ trainset_size(all_inclusive) = Len(dataset)
          /\ size # -1 => size = Len(dataset))
    /\ [][SamplerGet
            => /\ Len(order') = Len(dataset)
               /\ \A i \in 1..Len(order') : order'[i] \in 0..(Len(dataset) - 1)
               /\ \A k \in 0..(Len(dataset) - 1) :
                      \E i \in 1..Len(order') :
                          /\ order'[i] = k
                          /\ \A j \in 1..Len(order') : order'[j] = k => j = i
               /\ framework # "pytorch" => \A i \in 1..Len(order') : order'[i] = i - 1
               /\ all_inclusive' = all_inclusive]_vars

\* Over three examples with PyTorch, get() was called more than once and
\* last yielded a shuffled order; trainset_size() answered 3.
C20_Witness ==
    /\ framework = "pytorch"
    /\ Len(dataset) = 3
    /\ order = <<2, 0, 1>>
    /\ size = 3

\* The steps of a batch up to and including its backward pass.
UpToBackward == {"zero_grad", "forward", "loss", "backward"}

\* C21: the gradient index does not persist between training sessions:
\* every complete_train call starts again from the first element, so batch 0
\* of every call runs with element 0 of the most recently loaded gradient
\* list in force, whatever position an earlier call ended at and whether or
\* not load_gradients was called in between.
C21_EverySessionStartsAtFirst ==
    /\ (pc \in UpToBackward /\ batch_id = 0)
           => /\ cut_layer_gradients = GradientsList[1]
              /\ InForce(cut_layer_gradients).pos = 0
              /\ gradients_index = FirstIndex
    /\ (InTrain /\ Len(used) >= 1)
           => used[1] = [pos |-> 0, grad |-> heap[GradientsList[1]]]

\* A second session over the three gradients of the first, which ended at
\* the last position, is at the backward pass of its batch 0.
C21_Witness ==
    /\ pc = "backward"
    /\ batch_id = 0
    /\ Registrations(hooks) = 2
    /\ Len(GradientsList) = 3
    /\ hook_calls = 1
    /\ InForce(cut_layer_gradients).pos = 0

\* A load_gradients call of the server.
Load == \E vals \in GradSeqs : ServerSend(vals)

\* C22: load_gradients changes only gradients_list and leaves
\* cut_layer_gradients unchanged: called after a complete_train run, the
\* gradient the hook would apply is still the element of the previous, now
\* discarded, list until the next complete_train call replaces it with
\* element 0 of the new list.
C22_LoadKeepsCutGradient ==
    /\ [][(pc = "idle" /\ pc' = "idle")
            => CutContent(heap', cut_layer_gradients')
                   = CutContent(heap, cut_layer_gradients)]_vars
    /\ [][\/ /\ (cut_layer_gradients = None) = (cut_layer_gradients' = None)
             /\ \A i \in 1..Len(lists'[gradients_list']) :
                    lists'[gradients_list'][i] # cut_layer_gradients'
             /\ UNCHANGED <<hooks, training, runVars, hookVars>>
          \/ ~Load]_vars
    /\ [][(pc = "idle" /\ pc' \in {"zero_grad", "done"})
            => cut_layer_gradients' = GradientsList[1]]_vars

\* After a run that ended with g1 in force, the list [g0] was loaded: g1,
\* no element of the list, is what the hook would apply.
C22_Witness ==
    /\ pc = "idle"
    /\ Contents(heap, GradientsList) = <<"g0">>
    /\ CutContent(heap, cut_layer_gradients) = "g1"
    /\ PosOf(cut_layer_gradients) = -1
    /\ Registrations(hooks) = 1

\* C23: leaving WARMUP is irreversible: once cut_layer_gradients has been
\* set to a gradient, no operation (load_gradients, also with an empty
\* sequence, extract_features, complete_train returning or aborting with an
\* exception, a hook invocation) sets it back to None.
C23_NeverBackToWarmup ==
    [][~WARMUP => ~WARMUP']_vars

\* With a gradient in force, an empty sequence was loaded and features were
\* extracted; the gradient is still in force.
C23_Witness ==
    /\ ~WARMUP
    /\ pc = "idle"
    /\ GradientsList = <<>>
    /\ epc = "returned"
    /\ feature_dataset # <<>>

\* C24: hook registrations are never removed: the hook complete_train
\* registers stays on the cut layer after the call returns or aborts, so
\* after k calls on the same model and cut layer there are k registrations
\* and one backward pass reaching that layer invokes apply_gradients k times.
C24_RegistrationsAccumulate ==
    [][/\ \A l \in Layers :
              hooks'[l] = hooks[l] + (IF pc = "idle" /\ pc' # "idle" /\ cut_layer' = l
                                      THEN 1 ELSE 0)
       /\ (pc = "backward" /\ pc' = "step") => hook_calls' = hooks[cut_layer]
       /\ \A l \in Layers : HookCall(l) => hook_calls' = hooks[l]]_vars

\* After two calls cut at the same layer, one of which aborted, a backward
\* pass reaching that layer invoked the hook twice.
C24_Witness ==
    /\ pc = "idle"
    /\ hooks[SplitLayer] = 2
    /\ hook_calls = 2
    /\ Len(GradientsList) >= 1
    /\ WARMUP

====
